---- MODULE Spec2Model ----
(***************************************************************************)
(* BananaSlide: the image-generation engine behind the slide workbench.    *)
(*                                                                         *)
(* The module models                                                       *)
(*   - the four provider adapters (Gemini, DALL-E, Stability, Volcengine): *)
(*     generateImage with its attempt loop and generateVariations with its *)
(*     fan-out,                                                            *)
(*   - ImageGeneratorFactory.createGenerator,                              *)
(*   - the App component: slides, generateSlide and handleBatchGenerate,   *)
(*   - VolcengineGenerator.calculateSize.                                  *)
(*                                                                         *)
(* JavaScript runs one task at a time: an action is one task of the event  *)
(* loop (a click, a timer that fires, a response that arrives) together    *)
(* with every promise continuation it makes runnable.  Timers are pending  *)
(* setTimeout calls that carry their delay in milliseconds; a response may *)
(* take any time to arrive.  Strings of the source that are not ASCII are  *)
(* written here in English, and String.includes is the table Substrings.   *)
(***************************************************************************)
EXTENDS Integers, Sequences, FiniteSets, TLC

VARIABLES
    slides,             \* App state `slides`: the sequence of SlideData
    isBatchGenerating,  \* App state `isBatchGenerating`
    batch,              \* the latest handleBatchGenerate call, running or finished
    settings,           \* App state `settings` (the fields the engine reads)
    apiKeys,            \* App state `apiKeys`
    gens,               \* every generateVariations / generateImage invocation made so far
    factory,            \* the last createGenerator call: its arguments and its result
    size,               \* a calculateSize call: its arguments and its result
    nextId              \* the ids handed out so far (crypto.randomUUID never repeats)

vars == <<slides, isBatchGenerating, batch, settings, apiKeys, gens, factory, size, nextId>>

(***************************************************************************)
(* Bounds of the model.                                                    *)
(***************************************************************************)
MaxCount == 3       \* largest count handed to generateVariations directly
MaxSlides == 3      \* most slides the workbench ever holds
MaxGens == 3        \* most generateSlide calls of one run of the workbench
MaxUserGens == 2    \* the same, where the user also clicks single slides

(***************************************************************************)
(* Program constants.                                                      *)
(***************************************************************************)
retries == 3                    \* attempts of the retry loop
BackoffBase == 1000             \* Math.pow(2, attempt + 1) * 1000
GeminiStagger == 500            \* setTimeout(r, i * 500)
DalleStagger == 1000            \* setTimeout(r, i * 1000)
VolcengineStagger == 500        \* setTimeout(r, 500)
DefaultVariantCount == 2        \* createEmptySlide: variantCount: 2

Adapters == {"gemini", "dalle", "stability", "volcengine"}

(***************************************************************************)
(* Messages.  Substrings(m) lists which of the substrings the code tests   *)
(* for with String.includes occur in message m.                            *)
(***************************************************************************)
MsgOverloaded == "The model is overloaded"
MsgRateLimit == "rate limit exceeded"
MsgBadSize == "size 1500x1500 is not supported"
MsgServerError == "The server had an error while processing your request"
MsgNoImageGemini == "No image generated in response."
MsgNoImageDalle == "No image generated in response"
MsgFailedToFetch == "Failed to fetch"
MsgOpenAIKey == "OpenAI API key is not set"
MsgStabilityKey == "Stability AI API key is not set"
MsgVolcKeyUnset == "Volcengine Ark API Key not set, fill it in in the settings"
MsgVolcNetwork == "Network request failed, check: 1) the API Key is right; 2) the network reaches Volcengine Ark; 3) try a proxy."
MsgVolcDownload == "Downloading the image failed"
MsgVolcNoData == "No valid image data received"
MsgVolcGeneric == "Image generation failed"
MsgFillGeminiKey == "Fill in the Gemini API Key in the settings"
MsgFillVolcKey == "Fill in the Volcengine Ark API Key in the settings"
MsgKeyStillFails == "API Key filled in, but the error remains"
MsgGenerateFailed == "Generation failed"
MsgJson == "{json}"

\* `API request failed with status ${response.status}`
DalleDefaultMsg(status) ==
    CASE status = 400 -> "API request failed with status 400"
      [] status = 429 -> "API request failed with status 429"
      [] status = 500 -> "API request failed with status 500"
      [] status = 503 -> "API request failed with status 503"
      [] OTHER -> "API request failed with status 0"

\* The message of an ApiError of the Gemini SDK whose body names no message.
GeminiDefaultMsg(status) ==
    CASE status = 400 -> "got status: 400"
      [] status = 429 -> "got status: 429"
      [] status = 500 -> "got status: 500"
      [] status = 503 -> "got status: 503"
      [] OTHER -> "got status: 0"

\* `API qingqiu shibai: ${response.status}` ("API request failed: N")
VolcDefaultMsg(status) ==
    CASE status = 400 -> "API request failed: 400"
      [] status = 429 -> "API request failed: 429"
      [] status = 500 -> "API request failed: 500"
      [] status = 503 -> "API request failed: 503"
      [] OTHER -> "API request failed: 0"

Substrings(m) ==
    CASE m = MsgOverloaded -> {"overloaded"}
      [] m = MsgRateLimit -> {"rate limit"}
      [] m = MsgBadSize -> {"500"}
      [] m = DalleDefaultMsg(500) -> {"500"}
      [] m = DalleDefaultMsg(503) -> {"503"}
      [] m = VolcDefaultMsg(500) -> {"500"}
      [] m = VolcDefaultMsg(503) -> {"503"}
      [] m = MsgOpenAIKey -> {"API key"}
      [] m = MsgStabilityKey -> {"API key"}
      [] m = MsgVolcKeyUnset -> {"Key", "not set"}
      [] m = MsgVolcNetwork -> {"Key"}
      [] m = MsgFillGeminiKey -> {"Key"}
      [] m = MsgFillVolcKey -> {"Key"}
      [] OTHER -> {}

Includes(m, sub) == sub \in Substrings(m)

(***************************************************************************)
(* Errors: a JavaScript error object, by its name, its status (0 when it   *)
(* has none) and its message.                                              *)
(***************************************************************************)
Err(name, status, message) == [name |-> name, status |-> status, message |-> message]
NoError == Err("none", 0, "")

(***************************************************************************)
(* What the provider can answer to one request.                            *)
(*   image : a success that carries inline image data                      *)
(*   url   : a success that carries the URL of the image                   *)
(*   empty : a success without image data                                  *)
(*   http  : a non-2xx status, with the error message of the body ("" when *)
(*           the body has none)                                            *)
(*   neterr: the request itself fails (fetch rejects with a TypeError)     *)
(***************************************************************************)
Resp(kind, status, body) == [kind |-> kind, status |-> status, body |-> body]
RespImage == Resp("image", 200, "")
RespUrl == Resp("url", 200, "")
RespEmpty == Resp("empty", 200, "")
RespNetErr == Resp("neterr", 0, "")

Statuses == {400, 429, 500, 503}
Bodies == {"", MsgOverloaded, MsgRateLimit, MsgBadSize, MsgServerError}
HttpResponses == {Resp("http", s, b) : s \in Statuses, b \in Bodies}

\* Every answer the model lets a provider give to generateImage.
AllResponses == {RespImage, RespUrl, RespEmpty, RespNetErr} \cup HttpResponses
\* The answers used where several calls run side by side.
FewResponses == {RespImage, Resp("http", 503, ""), Resp("http", 400, "")}

\* The answers an adapter can tell apart: Gemini and Stability read the image
\* from the response itself, DALL-E reads a URL only.
ResponsesOf(adapter) ==
    CASE adapter = "gemini" -> AllResponses \ {RespUrl}
      [] adapter = "stability" -> AllResponses \ {RespUrl, RespEmpty}
      [] adapter = "dalle" -> AllResponses \ {RespImage}
      [] OTHER -> AllResponses

\* The answers to the second fetch, of the image URL.
Downloads == {"ok", "notok", "neterr"}

(***************************************************************************)
(* Images: the image the provider made for call `call` of invocation `gen`.*)
(* valid is FALSE for the body of a failed download taken for an image.    *)
(***************************************************************************)
Image(g, i, valid) == [gen |-> g, call |-> i, valid |-> valid]
NoImage == Image(0, 0, FALSE)

(***************************************************************************)
(* One generateImage call.                                                 *)
(*   pc      : unstarted (a later iteration of the Volcengine loop),       *)
(*             stagger (the delay before the call is pending),             *)
(*             fetch (the provider request is in flight),                  *)
(*             download (the fetch of the image URL is in flight),         *)
(*             backoff (the delay before the next attempt is pending),     *)
(*             resolved, rejected                                          *)
(*   timer   : the delay in ms of the pending setTimeout                   *)
(*   attempt : the loop variable of the attempt loop                       *)
(*   issued  : the provider requests issued so far                         *)
(*   delays  : the backoff delays taken so far                             *)
(*   answers : the answers of the provider so far, one per request         *)
(***************************************************************************)
NewCall(pc, timer) ==
    [pc |-> pc, timer |-> timer, attempt |-> 0, lastError |-> NoError,
     error |-> NoError, value |-> NoImage, issued |-> 0, delays |-> <<>>,
     answers |-> <<>>]

Pow2(n) == IF n = 0 THEN 1 ELSE IF n = 1 THEN 2 ELSE IF n = 2 THEN 4 ELSE 8

Resolve(c, img) == [c EXCEPT !.pc = "resolved", !.value = img, !.timer = 0]
Reject(c, e) == [c EXCEPT !.pc = "rejected", !.error = e, !.timer = 0]
Issue(c) == [c EXCEPT !.pc = "fetch", !.issued = @ + 1, !.timer = 0]

\* Gemini: isOverloaded || isInternal
GeminiRetryable(e) ==
    LET status == e.status
        msg == IF e.message # "" THEN e.message ELSE MsgJson
        isOverloaded == \/ status = 503
                        \/ Includes(msg, "overloaded")
                        \/ Includes(msg, "UNAVAILABLE")
        isInternal == \/ status = 500
                      \/ Includes(msg, "Internal Server Error")
    IN  isOverloaded \/ isInternal

\* DALL-E: isRetryable
DalleRetryable(e) ==
    \/ Includes(e.message, "rate limit")
    \/ Includes(e.message, "overloaded")
    \/ Includes(e.message, "503")
    \/ Includes(e.message, "500")

\* Stability: isRetryable
StabilityRetryable(e) ==
    \/ Includes(e.message, "rate limit")
    \/ Includes(e.message, "overloaded")
    \/ Includes(e.message, "503")
    \/ Includes(e.message, "500")

Retryable(adapter, e) ==
    CASE adapter = "gemini" -> GeminiRetryable(e)
      [] adapter = "dalle" -> DalleRetryable(e)
      [] adapter = "stability" -> StabilityRetryable(e)
      [] OTHER -> FALSE

\* The error an adapter throws inside its try block for a failed answer.
ErrorOf(adapter, r) ==
    CASE r.kind = "neterr" -> Err("TypeError", 0, MsgFailedToFetch)
      [] r.kind = "empty" /\ adapter = "gemini" -> Err("Error", 0, MsgNoImageGemini)
      [] r.kind = "empty" /\ adapter = "dalle" -> Err("Error", 0, MsgNoImageDalle)
      [] r.kind = "empty" /\ adapter = "volcengine" -> Err("Error", 0, MsgVolcNoData)
      [] r.kind = "http" /\ adapter = "gemini" ->
            Err("ApiError", r.status, IF r.body # "" THEN r.body ELSE GeminiDefaultMsg(r.status))
      [] r.kind = "http" /\ adapter \in {"dalle", "stability"} ->
            Err("Error", 0, IF r.body # "" THEN r.body ELSE DalleDefaultMsg(r.status))
      [] r.kind = "http" /\ adapter = "volcengine" ->
            Err("Error", 0, IF r.body # "" THEN r.body ELSE VolcDefaultMsg(r.status))
      [] OTHER -> NoError

\* The catch block of the attempt loop (Gemini, DALL-E, Stability):
\* lastError = error; back off and continue, or break and throw lastError.
LoopCatch(adapter, c, e) ==
    LET c1 == [c EXCEPT !.lastError = e]
    IN  IF c1.attempt < retries - 1 /\ Retryable(adapter, e)
        THEN [c1 EXCEPT !.pc = "backoff",
                        !.timer = Pow2(c1.attempt + 1) * BackoffBase,
                        !.delays = Append(@, Pow2(c1.attempt + 1) * BackoffBase)]
        ELSE Reject(c1, c1.lastError)

\* The catch block of VolcengineGenerator.generateImage: a failed fetch is
\* replaced by an explanatory error, anything else is thrown again.
VolcCatch(c, e) ==
    IF e.name = "TypeError" /\ e.message = MsgFailedToFetch
    THEN Reject(c, Err("Error", 0, MsgVolcNetwork))
    ELSE Reject(c, e)

Catch(adapter, c, e) ==
    IF adapter = "volcengine" THEN VolcCatch(c, e) ELSE LoopCatch(adapter, c, e)

\* generateImage up to its first await: the credential check of the adapters
\* that hold a key, then the first provider request.
KeyError(adapter) ==
    CASE adapter = "dalle" -> Err("Error", 0, MsgOpenAIKey)
      [] adapter = "stability" -> Err("Error", 0, MsgStabilityKey)
      [] OTHER -> Err("Error", 0, MsgVolcKeyUnset)

\* EnterGenerateImage without the credential check.
EnterGenerateImageUnchecked(adapter, key, c) == Issue(c)

EnterGenerateImage(adapter, key, c) ==
    IF adapter # "gemini" /\ key = ""
    THEN Reject(c, KeyError(adapter))
    ELSE Issue(c)

\* generateImage when the answer r to its request arrives.
OnResponse(adapter, img, c, r) ==
    LET c1 == [c EXCEPT !.answers = Append(@, r)]
    IN  CASE r.kind = "image" -> Resolve(c1, img)
          [] r.kind = "url" -> [c1 EXCEPT !.pc = "download"]
          [] OTHER -> Catch(adapter, c1, ErrorOf(adapter, r))

\* generateImage when the answer d to the fetch of the image URL arrives.
\* DALL-E does not look at the status of that answer.
OnDownload(adapter, img, c, d) ==
    CASE d = "neterr" -> Catch(adapter, c, Err("TypeError", 0, MsgFailedToFetch))
      [] d = "notok" /\ adapter = "volcengine" -> Catch(adapter, c, Err("Error", 0, MsgVolcDownload))
      [] d = "notok" -> Resolve(c, [img EXCEPT !.valid = FALSE])
      [] OTHER -> Resolve(c, img)

\* The backoff delay has passed: continue with the next attempt.
OnBackoff(c) == Issue([c EXCEPT !.attempt = @ + 1])

(***************************************************************************)
(* One generateVariations invocation (mode "all": Promise.all over count   *)
(* staggered calls; mode "seq": the Volcengine loop), or one generateImage *)
(* invocation made directly (mode "single").                               *)
(*   outcome : pending, resolved (images) or rejected (error)              *)
(*   errors  : the `errors` array of the Volcengine loop                   *)
(*   owner   : the id of the slide generateSlide made it for, 0 if none    *)
(*   byBatch : whether handleBatchGenerate awaits it                       *)
(*   order   : the calls that have settled, in the order they settled      *)
(***************************************************************************)
Stagger(adapter) ==
    CASE adapter = "gemini" -> GeminiStagger
      [] adapter = "volcengine" -> VolcengineStagger
      [] OTHER -> DalleStagger

ModeOf(adapter) == IF adapter = "volcengine" THEN "seq" ELSE "all"

Gen(adapter, key, mode, count, owner, byBatch) ==
    [adapter |-> adapter, key |-> key, mode |-> mode, count |-> count,
     calls |-> [i \in 1..count |-> NewCall("unstarted", 0)],
     outcome |-> "pending", images |-> <<>>, error |-> NoError, errors |-> <<>>,
     owner |-> owner, byBatch |-> byBatch, order |-> <<>>]

Settled(c) == c.pc \in {"resolved", "rejected"}

\* A Promise.all that resolves with the values in the order they arrived.
PromiseAllInArrivalOrder(gen, i) ==
    IF gen.outcome # "pending" THEN gen
    ELSE IF gen.calls[i].pc = "rejected"
    THEN [gen EXCEPT !.outcome = "rejected", !.error = gen.calls[i].error]
    ELSE IF \A j \in 1..gen.count : gen.calls[j].pc = "resolved"
    THEN [gen EXCEPT !.outcome = "resolved",
                     !.images = [j \in 1..gen.count |-> gen.calls[gen.order[j]].value]]
    ELSE gen

\* Promise.all(promises): rejects with the first rejection it sees, resolves
\* with every value, in the order of the promises, once all have resolved.
PromiseAll(gen, i) ==
    IF gen.outcome # "pending" THEN gen
    ELSE IF gen.calls[i].pc = "rejected"
    THEN [gen EXCEPT !.outcome = "rejected", !.error = gen.calls[i].error]
    ELSE IF \A j \in 1..gen.count : gen.calls[j].pc = "resolved"
    THEN [gen EXCEPT !.outcome = "resolved",
                     !.images = [j \in 1..gen.count |-> gen.calls[j].value]]
    ELSE gen

\* An end of the loop that returns whatever the loop collected.
VolcFinishUnchecked(gen) == [gen EXCEPT !.outcome = "resolved"]

\* The end of VolcengineGenerator.generateVariations, after its loop.
VolcFinish(gen) ==
    IF gen.images = <<>> /\ gen.errors # <<>>
    THEN [gen EXCEPT !.outcome = "rejected", !.error = Err("Error", 0, gen.errors[1])]
    ELSE IF gen.images = <<>>
    THEN [gen EXCEPT !.outcome = "rejected", !.error = Err("Error", 0, MsgVolcGeneric)]
    ELSE [gen EXCEPT !.outcome = "resolved"]

\* The Volcengine loop once its call i has settled: push the result or the
\* message, then wait the stagger before call i + 1, or finish.
VolcLoop(gen, i) ==
    LET c == gen.calls[i]
        g1 == IF c.pc = "resolved"
              THEN [gen EXCEPT !.images = Append(@, c.value)]
              ELSE [gen EXCEPT !.errors = Append(@, c.error.message)]
    IN  IF i + 1 > g1.count
        THEN VolcFinish(g1)
        ELSE [g1 EXCEPT !.calls[i + 1] = NewCall("stagger", VolcengineStagger)]

\* What generateVariations (or the direct caller) does once call i moved.
AfterCall(gen, i) ==
    IF ~Settled(gen.calls[i]) THEN gen
    ELSE LET g1 == [gen EXCEPT !.order = Append(@, i)]
         IN  CASE g1.mode = "all" -> PromiseAll(g1, i)
               [] g1.mode = "seq" -> VolcLoop(g1, i)
               [] OTHER -> IF g1.calls[i].pc = "resolved"
                           THEN [g1 EXCEPT !.outcome = "resolved", !.images = <<g1.calls[i].value>>]
                           ELSE [g1 EXCEPT !.outcome = "rejected", !.error = g1.calls[i].error]

\* generateVariations up to its first await.  Promise.all adapters start a
\* timer of i * stagger per call (Promise.all of no promise resolves with
\* no image); Volcengine enters its first generateImage at once.
GenerateVariations(adapter, key, count, owner, byBatch) ==
    LET gen == Gen(adapter, key, ModeOf(adapter), count, owner, byBatch)
    IN  IF adapter = "volcengine"
        THEN IF count = 0 THEN VolcFinish(gen)
             ELSE AfterCall([gen EXCEPT !.calls[1] =
                                EnterGenerateImage(adapter, key, NewCall("unstarted", 0))], 1)
        ELSE IF count = 0 THEN [gen EXCEPT !.outcome = "resolved"]
             ELSE [gen EXCEPT !.calls =
                      [i \in 1..count |-> NewCall("stagger", (i - 1) * Stagger(adapter))]]

\* A direct generateImage call.
GenerateImage(adapter, key) ==
    LET gen == Gen(adapter, key, "single", 1, 0, FALSE)
    IN  AfterCall([gen EXCEPT !.calls[1] =
                      EnterGenerateImage(adapter, key, NewCall("unstarted", 0))], 1)

(***************************************************************************)
(* ImageGeneratorFactory.createGenerator(type, apiKeys): the adapter and   *)
(* the key it holds, or the error thrown.                                  *)
(***************************************************************************)
KnownTypes == {"gemini", "volcengine"}
\* generatorType as loaded from the saved settings: a known type, or a type
\* a former version saved.
GeneratorTypes == KnownTypes \cup {"dalle"}
Keys == {"", "sk"}

Created(adapter, key) == [ok |-> TRUE, adapter |-> adapter, key |-> key, error |-> NoError]
Thrown(e) == [ok |-> FALSE, adapter |-> "none", key |-> "", error |-> e]

\* createGenerator with a default branch that refuses the type.
createGeneratorStrict(type, keys) ==
    CASE type = "gemini" ->
            IF keys.geminiApiKey = ""
            THEN Thrown(Err("Error", 0, MsgFillGeminiKey))
            ELSE Created("gemini", keys.geminiApiKey)
      [] type = "volcengine" ->
            IF keys.volcengineSecretKey = ""
            THEN Thrown(Err("Error", 0, MsgFillVolcKey))
            ELSE Created("volcengine", keys.volcengineSecretKey)
      [] OTHER -> Thrown(Err("Error", 0, MsgGenerateFailed))

createGenerator(type, keys) ==
    CASE type = "gemini" ->
            IF keys.geminiApiKey = ""
            THEN Thrown(Err("Error", 0, MsgFillGeminiKey))
            ELSE Created("gemini", keys.geminiApiKey)
      [] type = "volcengine" ->
            IF keys.volcengineSecretKey = ""
            THEN Thrown(Err("Error", 0, MsgFillVolcKey))
            ELSE Created("volcengine", keys.volcengineSecretKey)
      [] OTHER ->
            IF keys.geminiApiKey = ""
            THEN Thrown(Err("Error", 0, MsgFillGeminiKey))
            ELSE Created("gemini", keys.geminiApiKey)

\* The record of a construction: who constructed (by), from what, the result.
NoFactory == [by |-> "none", type |-> "none",
              keys |-> [geminiApiKey |-> "", volcengineSecretKey |-> ""],
              result |-> Thrown(NoError)]

(***************************************************************************)
(* VolcengineGenerator.calculateSize.  Strings that are split and parsed   *)
(* come from finite tables; NaN is a number record of its own.  The        *)
(* floating-point steps are computed exactly: Math.round(Math.sqrt(q)) for *)
(* a rational q is found with the integer square root.                     *)
(***************************************************************************)
MAX_PIXELS == 16777216
MIN_PIXELS == 921600
Quantum == 32                   \* Math.round(width / 32) * 32

Resolutions == {"2K", "4K"}
RESOLUTION_BASE_SIZE(resolution) ==
    CASE resolution = "2K" -> [width |-> 2048, height |-> 2048]
      [] resolution = "4K" -> [width |-> 4096, height |-> 4096]

\* enum AspectRatio
AspectRatios == {"1:1", "3:4", "9:16", "4:3", "16:9", "18:8", "8:18", "custom"}

VOLCENGINE_ASPECT_RATIOS ==
    << [val |-> "1:1", label |-> "1:1", size |-> "1024x1024"],
       [val |-> "4:3", label |-> "4:3", size |-> "1152x864"],
       [val |-> "3:4", label |-> "3:4", size |-> "864x1152"],
       [val |-> "16:9", label |-> "16:9", size |-> "1280x720"],
       [val |-> "9:16", label |-> "9:16", size |-> "720x1280"],
       [val |-> "18:8", label |-> "21:9", size |-> "1512x648"],
       [val |-> "8:18", label |-> "9:21", size |-> "648x1512"] >>

\* The custom ratio strings of the model ("" stands for an absent or empty
\* string, both falsy).
CustomRatios ==
    {"", "16:9", "21:9", "9:21", "1:1", "abc", "0:5", "16:9:1",
     "30000:1", "100000:1", "1:100000", "16:9px", "2.5:1"}

\* str.split(sep) for the strings of the model.
Split(str) ==
    CASE str = "1024x1024" -> <<"1024", "1024">>
      [] str = "1152x864" -> <<"1152", "864">>
      [] str = "864x1152" -> <<"864", "1152">>
      [] str = "1280x720" -> <<"1280", "720">>
      [] str = "720x1280" -> <<"720", "1280">>
      [] str = "1512x648" -> <<"1512", "648">>
      [] str = "648x1512" -> <<"648", "1512">>
      [] str = "16:9" -> <<"16", "9">>
      [] str = "21:9" -> <<"21", "9">>
      [] str = "9:21" -> <<"9", "21">>
      [] str = "1:1" -> <<"1", "1">>
      [] str = "0:5" -> <<"0", "5">>
      [] str = "16:9:1" -> <<"16", "9", "1">>
      [] str = "30000:1" -> <<"30000", "1">>
      [] str = "100000:1" -> <<"100000", "1">>
      [] str = "1:100000" -> <<"1", "100000">>
      [] str = "16:9px" -> <<"16", "9px">>
      [] str = "2.5:1" -> <<"2.5", "1">>
      [] OTHER -> <<str>>

Num(n) == [nan |-> FALSE, val |-> n]
NaN == [nan |-> TRUE, val |-> 0]

\* parseInt for the strings of the model: the longest prefix of digits, NaN
\* when that prefix is empty.
parseInt(str) ==
    CASE str = "0" -> Num(0)
      [] str = "1" -> Num(1)
      [] str = "2.5" -> Num(2)
      [] str = "5" -> Num(5)
      [] str = "9" -> Num(9)
      [] str = "9px" -> Num(9)
      [] str = "16" -> Num(16)
      [] str = "21" -> Num(21)
      [] str = "648" -> Num(648)
      [] str = "720" -> Num(720)
      [] str = "864" -> Num(864)
      [] str = "1024" -> Num(1024)
      [] str = "1152" -> Num(1152)
      [] str = "1280" -> Num(1280)
      [] str = "1512" -> Num(1512)
      [] str = "30000" -> Num(30000)
      [] str = "100000" -> Num(100000)
      [] OTHER -> NaN

\* The largest r in lo..hi with r * r <= n (lo * lo <= n).
RECURSIVE ISqrtIn(_, _, _)
ISqrtIn(n, lo, hi) ==
    IF lo >= hi THEN lo
    ELSE LET mid == (lo + hi + 1) \div 2
         IN  IF mid * mid <= n THEN ISqrtIn(n, mid, hi) ELSE ISqrtIn(n, lo, mid - 1)

ISqrt(n) == ISqrtIn(n, 0, 46340)

\* floor(Math.sqrt(pixels * num / den) / 16), for pixels a multiple of 1024:
\* with y = (pixels / 1024) * num / den and a = floor(sqrt(y)) it is
\* floor(sqrt(4 * y)), which is 2a + 1 when a^2 + a + 1/4 <= y and 2a otherwise.
HalfQuanta(pixels, num, den) ==
    LET m == (pixels \div (Quantum * Quantum)) * num
        q == m \div den
        rem == m % den
        a == ISqrt(q)
    IN  IF a * a + a < q \/ (a * a + a = q /\ 4 * rem >= den)
        THEN 2 * a + 1 ELSE 2 * a

\* Math.floor in the place of Math.round.
RoundedSideTruncated(pixels, num, den) ==
    (HalfQuanta(pixels, num, den) \div 2) * Quantum

\* Math.round(Math.sqrt(pixels * num / den) / 32) * 32:
\* round(x / 32) = (floor(x / 16) + 1) div 2.
RoundedSide(pixels, num, den) ==
    ((HalfQuanta(pixels, num, den) + 1) \div 2) * Quantum

\* calculateSize without its while loop.
ShrinkToMaxSkipped(width, height) == [width |-> width, height |-> height]

\* The while loop: take 32 off the larger side while the product is over
\* MAX_PIXELS and both sides are over 32.
RECURSIVE ShrinkToMax(_, _)
ShrinkToMax(width, height) ==
    IF width * height > MAX_PIXELS /\ width > Quantum /\ height > Quantum
    THEN IF width >= height
         THEN ShrinkToMax(width - Quantum, height)
         ELSE ShrinkToMax(width, height - Quantum)
    ELSE [width |-> width, height |-> height]

\* A targetRatio that takes the custom string whichever aspect ratio is
\* selected.
TargetRatioCustomFirst(aspectRatio, customRatio) ==
    LET unit == [num |-> 1, den |-> 1]
        found == {k \in DOMAIN VOLCENGINE_ASPECT_RATIOS :
                     VOLCENGINE_ASPECT_RATIOS[k].val = aspectRatio}
        parts == Split(customRatio)
        w == parseInt(parts[1])
        h == parseInt(parts[Len(parts)])
    IN  IF Len(parts) = 2 /\ ~w.nan /\ ~h.nan /\ w.val > 0 /\ h.val > 0
        THEN [num |-> w.val, den |-> h.val]
        ELSE IF found # {}
        THEN LET ratioConfig == VOLCENGINE_ASPECT_RATIOS[CHOOSE k \in found : \A j \in found : k <= j]
                 sides == Split(ratioConfig.size)
             IN  [num |-> parseInt(sides[1]).val, den |-> parseInt(sides[2]).val]
        ELSE unit

\* targetRatio as the fraction num / den.
TargetRatio(aspectRatio, customRatio) ==
    LET unit == [num |-> 1, den |-> 1]
        found == {k \in DOMAIN VOLCENGINE_ASPECT_RATIOS :
                     VOLCENGINE_ASPECT_RATIOS[k].val = aspectRatio}
    IN  IF aspectRatio = "custom" /\ customRatio # ""
        THEN LET parts == Split(customRatio)
             IN  IF Len(parts) = 2
                 THEN LET w == parseInt(parts[1])
                          h == parseInt(parts[2])
                      IN  IF ~w.nan /\ ~h.nan /\ w.val > 0 /\ h.val > 0
                          THEN [num |-> w.val, den |-> h.val]
                          ELSE unit
                 ELSE unit
        ELSE IF found # {}
        THEN LET ratioConfig == VOLCENGINE_ASPECT_RATIOS[CHOOSE k \in found : \A j \in found : k <= j]
                 parts == Split(ratioConfig.size)
             IN  IF Len(parts) = 2
                 THEN [num |-> parseInt(parts[1]).val, den |-> parseInt(parts[2]).val]
                 ELSE unit
        ELSE unit

\* calculateSize: the width and the height of the string `${width}x${height}`.
\* sqrt(basePixels / ratio) * (sqrt(basePixels / ratio) * ratio) is
\* basePixels, so the two scalings bring the pixel count into
\* [MIN_PIXELS, MAX_PIXELS] at the same ratio.
calculateSize(resolution, aspectRatio, customRatio) ==
    LET base == RESOLUTION_BASE_SIZE(resolution)
        basePixels == IF base.width * base.height > MAX_PIXELS
                      THEN MAX_PIXELS ELSE base.width * base.height
        ratio == TargetRatio(aspectRatio, customRatio)
        currentPixels == basePixels
        scaledDown == IF currentPixels > MAX_PIXELS THEN MAX_PIXELS ELSE currentPixels
        scaledUp == IF scaledDown < MIN_PIXELS THEN MIN_PIXELS ELSE scaledDown
        width == RoundedSide(scaledUp, ratio.num, ratio.den)
        height == RoundedSide(scaledUp, ratio.den, ratio.num)
    IN  ShrinkToMax(width, height)

(***************************************************************************)
(* The App component.                                                      *)
(***************************************************************************)
createEmptySlide(id) ==
    [id |-> id, contentPrompt |-> "", contentImage |-> "null", generatedImages |-> <<>>,
     variantCount |-> DefaultVariantCount, status |-> "idle", errorMessage |-> ""]

\* A map that applies the updates to every slide.
updateSlideEvery(sl, id, updates) ==
    [k \in DOMAIN sl |->
        [f \in DOMAIN sl[k] |-> IF f \in DOMAIN updates THEN updates[f] ELSE sl[k][f]]]

\* A map that spreads the updates over a fresh slide.
updateSlideResetting(sl, id, updates) ==
    [k \in DOMAIN sl |->
        IF sl[k].id = id
        THEN [f \in DOMAIN sl[k] |->
                 IF f \in DOMAIN updates THEN updates[f] ELSE createEmptySlide(id)[f]]
        ELSE sl[k]]

\* updateSlide as an upsert: an update for an id that is not in the list adds
\* a job of that id.
updateSlideUpserting(sl, id, updates) ==
    IF \E k \in DOMAIN sl : sl[k].id = id
    THEN [k \in DOMAIN sl |->
            IF sl[k].id = id
            THEN [f \in DOMAIN sl[k] |-> IF f \in DOMAIN updates THEN updates[f] ELSE sl[k][f]]
            ELSE sl[k]]
    ELSE Append(sl, [f \in DOMAIN createEmptySlide(id) |->
                        IF f \in DOMAIN updates THEN updates[f] ELSE createEmptySlide(id)[f]])

\* setSlides(prev => prev.map(s => s.id === id ? { ...s, ...updates } : s))
updateSlide(sl, id, updates) ==
    [k \in DOMAIN sl |->
        IF sl[k].id = id
        THEN [f \in DOMAIN sl[k] |-> IF f \in DOMAIN updates THEN updates[f] ELSE sl[k][f]]
        ELSE sl[k]]

\* setSlides(prev => prev.filter(s => s.id !== id))
deleteSlide(sl, id) == SelectSeq(sl, LAMBDA s : s.id # id)

HasSlide(sl, id) == \E k \in DOMAIN sl : sl[k].id = id
SlideOf(sl, id) == sl[CHOOSE k \in DOMAIN sl : sl[k].id = id]

\* The state the App handlers work on.
St == [slides |-> slides, gens |-> gens, batch |-> batch,
       isBatchGenerating |-> isBatchGenerating, factory |-> factory]

\* A handleBatchGenerate call: the slides of its closure, its targets, the
\* position idx of its loop, and how many invocations older calls had made.
NoBatch == [pc |-> "idle", snapshot |-> <<>>, targets |-> <<>>, idx |-> 0, first |-> 0]

\* The catch block of generateSlide: the errorMessage shown for error e.
ErrorMessageFor(e) ==
    IF \/ Includes(e.message, "API key")
       \/ Includes(e.message, "Key")
       \/ Includes(e.message, "not set")
    THEN IF apiKeys.volcengineSecretKey # "" THEN MsgKeyStillFails ELSE MsgFillVolcKey
    ELSE IF e.message # "" THEN e.message ELSE MsgGenerateFailed

\* generateSlide after `await generator.generateVariations(...)`.
FinishSlide(st, gen) ==
    IF gen.outcome = "resolved"
    THEN [st EXCEPT !.slides = updateSlide(@, gen.owner,
                        [status |-> "success", generatedImages |-> gen.images])]
    ELSE [st EXCEPT !.slides = updateSlide(@, gen.owner,
                        [status |-> "error", errorMessage |-> ErrorMessageFor(gen.error)])]

\* generateSlide(id) up to its await, run with the slides `snap` of the
\* render its closure was made in.
generateSlide(st, snap, id, byBatch) ==
    IF ~HasSlide(snap, id) THEN st
    ELSE
      LET slide == SlideOf(snap, id)
          st1 == [st EXCEPT !.slides = updateSlide(@, id,
                                [status |-> "generating", errorMessage |-> ""])]
          made == createGenerator(settings.generatorType, apiKeys)
          st2 == [st1 EXCEPT !.factory = [by |-> "createGenerator",
                                          type |-> settings.generatorType,
                                          keys |-> apiKeys, result |-> made]]
      IN  IF ~made.ok
          THEN [st2 EXCEPT !.slides = updateSlide(@, id,
                              [status |-> "error", errorMessage |-> ErrorMessageFor(made.error)])]
          ELSE
            LET gen == GenerateVariations(made.adapter, made.key, slide.variantCount, id, byBatch)
                st3 == [st2 EXCEPT !.gens = Append(@, gen)]
            IN  IF gen.outcome = "pending" THEN st3 ELSE FinishSlide(st3, gen)

Awaiting(st) == st.gens # <<>> /\ st.gens[Len(st.gens)].outcome = "pending"

\* The loop of handleBatchGenerate from target idx on, up to the next await
\* that has to wait, or to setIsBatchGenerating(false).
RECURSIVE RunBatch(_)
RunBatch(st) ==
    IF st.batch.idx > Len(st.batch.targets)
    THEN [st EXCEPT !.isBatchGenerating = FALSE, !.batch.pc = "idle"]
    ELSE
      LET st1 == generateSlide(st, st.batch.snapshot, st.batch.targets[st.batch.idx], TRUE)
      IN  IF Len(st1.gens) > Len(st.gens) /\ Awaiting(st1)
          THEN st1
          ELSE RunBatch([st1 EXCEPT !.batch.idx = @ + 1])

\* slides.filter(s => s.generatedImages.length === 0 || s.status === 'error' || s.status === 'idle')
IsTarget(s) == s.generatedImages = <<>> \/ s.status = "error" \/ s.status = "idle"
Targets(sl) == [k \in 1..Len(SelectSeq(sl, IsTarget)) |-> SelectSeq(sl, IsTarget)[k].id]

handleBatchGenerate(st) ==
    RunBatch([st EXCEPT !.isBatchGenerating = TRUE,
                        !.batch = [pc |-> "running", snapshot |-> st.slides,
                                   targets |-> Targets(st.slides), idx |-> 1,
                                   first |-> Len(st.gens)]])

\* AfterTask with a batch loop that stops at the first job that fails.
AfterTaskAborts(st, g, i, c) ==
    LET before == st.gens[g]
        gen == AfterCall([before EXCEPT !.calls[i] = c], i)
        st1 == [st EXCEPT !.gens[g] = gen]
    IN  IF before.outcome = "pending" /\ gen.outcome # "pending" /\ gen.owner # 0
        THEN LET st2 == FinishSlide(st1, gen)
             IN  IF gen.byBatch
                 THEN IF gen.outcome = "rejected"
                      THEN [st2 EXCEPT !.isBatchGenerating = FALSE, !.batch.pc = "idle"]
                      ELSE RunBatch([st2 EXCEPT !.batch.idx = @ + 1])
                 ELSE st2
        ELSE st1

\* Everything that follows call i of invocation g becoming c within the same
\* task: the fan-out, then generateSlide, then the batch loop.
AfterTask(st, g, i, c) ==
    LET before == st.gens[g]
        gen == AfterCall([before EXCEPT !.calls[i] = c], i)
        st1 == [st EXCEPT !.gens[g] = gen]
    IN  IF before.outcome = "pending" /\ gen.outcome # "pending" /\ gen.owner # 0
        THEN LET st2 == FinishSlide(st1, gen)
             IN  IF gen.byBatch
                 THEN RunBatch([st2 EXCEPT !.batch.idx = @ + 1])
                 ELSE st2
        ELSE st1

Apply(st) ==
    /\ slides' = st.slides
    /\ gens' = st.gens
    /\ batch' = st.batch
    /\ isBatchGenerating' = st.isBatchGenerating
    /\ factory' = st.factory

GenIds == DOMAIN gens
CallIds == 1..MaxCount

(***************************************************************************)
(* Tasks of the event loop that belong to a generateImage call.            *)
(***************************************************************************)
\* The stagger timer of call i fires: generateImage is entered.  Timers set
\* at the same moment fire in the order of their delays.
StaggerFire(g, i) ==
    /\ g \in DOMAIN gens /\ i \in DOMAIN gens[g].calls
    /\ gens[g].calls[i].pc = "stagger"
    /\ \A j \in 1..(i - 1) : gens[g].calls[j].pc # "stagger"
    /\ Apply(AfterTask(St, g, i,
                EnterGenerateImage(gens[g].adapter, gens[g].key, gens[g].calls[i])))
    /\ UNCHANGED <<settings, apiKeys, size, nextId>>

\* The provider answers the request of call i.
ProviderRespond(g, i, r) ==
    /\ g \in DOMAIN gens /\ i \in DOMAIN gens[g].calls
    /\ gens[g].calls[i].pc = "fetch"
    /\ r \in ResponsesOf(gens[g].adapter)
    /\ Apply(AfterTask(St, g, i,
                OnResponse(gens[g].adapter, Image(g, i, TRUE), gens[g].calls[i], r)))
    /\ UNCHANGED <<settings, apiKeys, size, nextId>>

\* The fetch of the image URL of call i is answered.
DownloadRespond(g, i, d) ==
    /\ g \in DOMAIN gens /\ i \in DOMAIN gens[g].calls
    /\ gens[g].calls[i].pc = "download"
    /\ Apply(AfterTask(St, g, i,
                OnDownload(gens[g].adapter, Image(g, i, TRUE), gens[g].calls[i], d)))
    /\ UNCHANGED <<settings, apiKeys, size, nextId>>

\* The backoff timer of call i fires.
BackoffFire(g, i) ==
    /\ g \in DOMAIN gens /\ i \in DOMAIN gens[g].calls
    /\ gens[g].calls[i].pc = "backoff"
    /\ Apply(AfterTask(St, g, i, OnBackoff(gens[g].calls[i])))
    /\ UNCHANGED <<settings, apiKeys, size, nextId>>

(***************************************************************************)
(* SpecFanout: one generateVariations call on an adapter constructed with  *)
(* any key, for any count up to MaxCount.                                  *)
(***************************************************************************)
Idle ==
    /\ slides = <<>>
    /\ isBatchGenerating = FALSE
    /\ batch = NoBatch
    /\ settings = [generatorType |-> "gemini"]
    /\ apiKeys = [geminiApiKey |-> "", volcengineSecretKey |-> ""]
    /\ gens = <<>>
    /\ factory = NoFactory
    /\ size = <<>>
    /\ nextId = 1

CallGenerateVariations(adapter, key, count) ==
    /\ gens = <<>>
    /\ gens' = <<GenerateVariations(adapter, key, count, 0, FALSE)>>
    /\ UNCHANGED <<slides, isBatchGenerating, batch, settings, apiKeys, factory, size, nextId>>

\* The answers of SpecFanout: a success of either shape, a 503, a 400.
FanoutResponses == FewResponses \cup {RespUrl}

InitFanout == Idle

NextFanout ==
    \/ \E adapter \in Adapters, key \in Keys, count \in 0..MaxCount :
          CallGenerateVariations(adapter, key, count)
    \/ \E g \in GenIds, i \in CallIds : StaggerFire(g, i)
    \/ \E g \in GenIds, i \in CallIds, r \in FanoutResponses : ProviderRespond(g, i, r)
    \/ \E g \in GenIds, i \in CallIds : DownloadRespond(g, i, "ok")
    \/ \E g \in GenIds, i \in CallIds : BackoffFire(g, i)

SpecFanout == InitFanout /\ [][NextFanout]_vars

(***************************************************************************)
(* Spec: the App component driven by its batch button.  It starts with two *)
(* empty slides and with the settings and keys loaded from the browser's   *)
(* storage; the user adds slides and starts batches, one after the other.  *)
(* The provider answers each request with an image or with a 400.          *)
(***************************************************************************)
Init ==
    /\ slides = <<createEmptySlide(1), createEmptySlide(2)>>
    /\ nextId = 3
    /\ isBatchGenerating = FALSE
    /\ batch = NoBatch
    /\ settings \in [generatorType : GeneratorTypes]
    /\ apiKeys \in [geminiApiKey : Keys, volcengineSecretKey : Keys]
    /\ gens = <<>>
    /\ factory = NoFactory
    /\ size = <<>>

\* addSlide
AddSlide ==
    /\ nextId <= MaxSlides
    /\ slides' = Append(slides, createEmptySlide(nextId))
    /\ nextId' = nextId + 1
    /\ UNCHANGED <<isBatchGenerating, batch, settings, apiKeys, gens, factory, size>>

\* The delete button of a slide row.
DeleteSlide(id) ==
    /\ HasSlide(slides, id)
    /\ slides' = deleteSlide(slides, id)
    /\ UNCHANGED <<isBatchGenerating, batch, settings, apiKeys, gens, factory, size, nextId>>

\* The variant buttons of a slide row: onUpdate(slide.id, { variantCount: n }).
SetVariantCount(id, n) ==
    /\ HasSlide(slides, id)
    /\ SlideOf(slides, id).variantCount # n
    /\ slides' = updateSlide(slides, id, [variantCount |-> n])
    /\ UNCHANGED <<isBatchGenerating, batch, settings, apiKeys, gens, factory, size, nextId>>

\* The targets the running batch has not started yet.
Remaining == IF batch.pc = "running" THEN Len(batch.targets) - batch.idx ELSE 0

\* The generate button of a slide row, disabled while the slide is generating.
ClickGenerate(id) ==
    /\ Len(gens) + Remaining < MaxUserGens
    /\ HasSlide(slides, id)
    /\ SlideOf(slides, id).status # "generating"
    /\ Apply(generateSlide(St, slides, id, FALSE))
    /\ UNCHANGED <<settings, apiKeys, size, nextId>>

\* The batch button, disabled while a batch runs or when there is no slide.
ClickBatchGenerateWithin(limit) ==
    /\ Len(gens) + Len(Targets(slides)) <= limit
    /\ ~isBatchGenerating
    /\ slides # <<>>
    /\ Apply(handleBatchGenerate(St))
    /\ UNCHANGED <<settings, apiKeys, size, nextId>>

ClickBatchGenerate == ClickBatchGenerateWithin(MaxGens)

\* The answers of Spec: a success, a 400.
AppResponses == {RespImage, Resp("http", 400, "")}

Next ==
    \/ AddSlide
    \/ ClickBatchGenerate
    \/ \E g \in GenIds, i \in CallIds : StaggerFire(g, i)
    \/ \E g \in GenIds, i \in CallIds, r \in AppResponses : ProviderRespond(g, i, r)

Spec == Init /\ [][Next]_vars

(***************************************************************************)
(* SpecRetry: an adapter is made, by createGenerator, by the factory of    *)
(* the former version (which knows DALL-E and Stability and takes the keys *)
(* from the environment) or by the Volcengine constructor, and one         *)
(* generateImage call runs on it against every answer of the provider.     *)
(***************************************************************************)
EarlierTypes == {"gemini", "dalle", "stability"}

\* ImageGeneratorFactory.createGenerator(type) of the former version; env is
\* the key the constructor reads from process.env.
createGeneratorEarlier(type, env) ==
    CASE type = "gemini" -> Created("gemini", env)
      [] type = "dalle" -> Created("dalle", env)
      [] type = "stability" -> Created("stability", env)
      [] OTHER -> Created("gemini", env)

KeyBundles == [geminiApiKey : Keys, volcengineSecretKey : Keys]

CreateGenerator(type, keys) ==
    /\ factory = NoFactory
    /\ factory' = [by |-> "createGenerator", type |-> type, keys |-> keys,
                   result |-> createGenerator(type, keys)]
    /\ UNCHANGED <<slides, isBatchGenerating, batch, settings, apiKeys, gens, size, nextId>>

CreateGeneratorEarlier(type, env) ==
    /\ factory = NoFactory
    /\ factory' = [by |-> "createGeneratorEarlier", type |-> type,
                   keys |-> [geminiApiKey |-> env, volcengineSecretKey |-> ""],
                   result |-> createGeneratorEarlier(type, env)]
    /\ UNCHANGED <<slides, isBatchGenerating, batch, settings, apiKeys, gens, size, nextId>>

\* new VolcengineGenerator(credentials): this.apiKey = credentials.secretKey
NewVolcengineGenerator(secretKey) ==
    /\ factory = NoFactory
    /\ factory' = [by |-> "constructor", type |-> "volcengine",
                   keys |-> [geminiApiKey |-> "", volcengineSecretKey |-> secretKey],
                   result |-> Created("volcengine", secretKey)]
    /\ UNCHANGED <<slides, isBatchGenerating, batch, settings, apiKeys, gens, size, nextId>>

CallGenerateImage ==
    /\ factory.result.ok
    /\ gens = <<>>
    /\ gens' = <<GenerateImage(factory.result.adapter, factory.result.key)>>
    /\ UNCHANGED <<slides, isBatchGenerating, batch, settings, apiKeys, factory, size, nextId>>

InitRetry == Idle

NextRetry ==
    \/ \E type \in GeneratorTypes, keys \in KeyBundles : CreateGenerator(type, keys)
    \/ \E type \in EarlierTypes \cup {"volcengine"}, env \in Keys : CreateGeneratorEarlier(type, env)
    \/ \E secretKey \in Keys : NewVolcengineGenerator(secretKey)
    \/ CallGenerateImage
    \/ \E g \in GenIds, i \in CallIds, r \in AllResponses : ProviderRespond(g, i, r)
    \/ \E g \in GenIds, i \in CallIds, d \in Downloads : DownloadRespond(g, i, d)
    \/ \E g \in GenIds, i \in CallIds : BackoffFire(g, i)

SpecRetry == InitRetry /\ [][NextRetry]_vars

(***************************************************************************)
(* Properties of the fan-out, checked under SpecFanout.                    *)
(***************************************************************************)
AllSettled(gen) == \A i \in 1..gen.count : Settled(gen.calls[i])
Succeeded(gen) == {i \in 1..gen.count : gen.calls[i].pc = "resolved"}

\* The values of the calls of gen that resolved, in the order of the calls.
RECURSIVE SuccessfulImages(_, _)
SuccessfulImages(gen, n) ==
    IF n = 0 THEN <<>>
    ELSE IF gen.calls[n].pc = "resolved"
         THEN Append(SuccessfulImages(gen, n - 1), gen.calls[n].value)
         ELSE SuccessfulImages(gen, n - 1)

\* C1: for every adapter, once the count >= 1 calls of a generateVariations
\* call have settled, the call has succeeded if and only if at least one of
\* its calls succeeded, and then it returns exactly the images of the
\* successful calls.
C1_PartialSuccessIsSuccess ==
    \A g \in DOMAIN gens :
        (gens[g].mode # "single" /\ gens[g].count >= 1 /\ AllSettled(gens[g])) =>
            /\ (gens[g].outcome = "resolved") <=> (Succeeded(gens[g]) # {})
            /\ (gens[g].outcome = "resolved") =>
                   gens[g].images = SuccessfulImages(gens[g], gens[g].count)

\* C2: when every call of a generateVariations call has failed, the call
\* raises an error that carries the message of the first-issued call,
\* whatever order the calls completed in.
C2_FirstIssuedErrorSurfaces ==
    \A g \in DOMAIN gens :
        (/\ gens[g].mode # "single" /\ gens[g].count >= 1
         /\ \A i \in 1..gens[g].count : gens[g].calls[i].pc = "rejected") =>
            /\ gens[g].outcome = "rejected"
            /\ gens[g].error.message = gens[g].calls[1].error.message

(***************************************************************************)
(* Properties of the batch, checked under Spec.                            *)
(***************************************************************************)
\* The invocations the latest batch made for slide id.
BatchGens(id) == {g \in DOMAIN gens : g > batch.first /\ gens[g].byBatch /\ gens[g].owner = id}
TargetPos(id) == CHOOSE k \in DOMAIN batch.targets : batch.targets[k] = id
HasIssued(gen) == \E i \in 1..gen.count : gen.calls[i].issued >= 1

\* C3: within a batch, once job N+1 has issued its first provider call,
\* every call of job N has settled: none of its provider calls, stagger
\* delays or backoff delays is still pending.
C3_JobsDoNotOverlap ==
    \A g, h \in DOMAIN gens :
        (/\ batch.first < g /\ g < h
         /\ gens[g].byBatch /\ gens[h].byBatch
         /\ HasIssued(gens[h])) => AllSettled(gens[g])

\* C4: a batch attempts every target in list order, whatever happened to the
\* targets before it: a target the loop has passed has status success or
\* error by the outcome of its own generation (error too when the factory
\* threw), the target the loop is at is generating, the targets after it are
\* untouched, and the loop ends only past the last target.
C4_BatchContinuesAfterFailure ==
    /\ (batch.pc = "idle" /\ batch.targets # <<>>) => batch.idx = Len(batch.targets) + 1
    /\ \A k \in DOMAIN batch.targets :
          LET id == batch.targets[k]
              s == SlideOf(slides, id)
              gs == BatchGens(id)
          IN  /\ HasSlide(slides, id)
              /\ Cardinality(gs) <= 1
              /\ k < batch.idx =>
                    /\ s.status \in {"success", "error"}
                    /\ gs = {} => (s.status = "error" /\ ~createGenerator(settings.generatorType, apiKeys).ok)
                    /\ \A g \in gs : /\ gens[g].outcome # "pending"
                                     /\ (s.status = "success") <=> (gens[g].outcome = "resolved")
              /\ (k = batch.idx) =>
                    /\ s.status = "generating"
                    /\ \E g \in gs : gens[g].outcome = "pending"
              /\ k > batch.idx => (gs = {} /\ s = SlideOf(batch.snapshot, id))
    /\ \A g, h \in DOMAIN gens :
          (batch.first < g /\ g < h /\ gens[g].byBatch /\ gens[h].byBatch) =>
              TargetPos(gens[g].owner) < TargetPos(gens[h].owner)

\* A finished batch of three jobs whose second job failed.
C4_Witness ==
    /\ batch.pc = "idle" /\ Len(batch.targets) = 3
    /\ SlideOf(slides, batch.targets[1]).status = "success"
    /\ SlideOf(slides, batch.targets[2]).status = "error"
    /\ SlideOf(slides, batch.targets[3]).status = "success"
    /\ \A k \in 1..3 : BatchGens(batch.targets[k]) # {}

(***************************************************************************)
(* Properties of generateImage, checked under SpecRetry.                   *)
(***************************************************************************)
\* The classification of the retry policy: a failure is transient when its
\* HTTP status is 500 or 503 or its message tells of an overload or of a
\* rate limit; every other failure is permanent.
IsFailure(r) == r.kind \in {"http", "empty", "neterr"}
IsTransient(r) ==
    /\ r.kind = "http"
    /\ r.status \in {500, 503} \/ r.body \in {MsgOverloaded, MsgRateLimit}
IsPermanent(r) == IsFailure(r) /\ ~IsTransient(r)

Last(seq) == seq[Len(seq)]

\* The error an attempt that got answer r fails with: the error thrown in the
\* try block, or, for a failed fetch in the Volcengine adapter, the error with
\* the explanation that its attempt puts in its place.
AttemptError(adapter, r) ==
    IF adapter = "volcengine" /\ r.kind = "neterr"
    THEN Err("Error", 0, MsgVolcNetwork)
    ELSE ErrorOf(adapter, r)
Calls == {gi \in GenIds \X CallIds : gi[2] \in DOMAIN gens[gi[1]].calls}

\* C5: in every adapter, a call whose answers so far are fewer than three
\* transient failures is not given up (its next attempt is pending or
\* issued), so that a call that fails twice with a transient error and then
\* succeeds has been invoked exactly 3 times and returns the image of the
\* third answer; a success on any attempt is returned without a further call.
C5_RetriesTransientThenSucceeds ==
    \A gi \in Calls :
        LET c == gens[gi[1]].calls[gi[2]]
            n == Len(c.answers)
        IN  /\ (/\ n >= 1 /\ n < retries
                /\ \A k \in 1..n : IsTransient(c.answers[k])) =>
                    (c.pc \in {"backoff", "fetch"} /\ c.issued \in {n, n + 1})
            /\ (n >= 1 /\ c.pc = "resolved") =>
                    /\ c.issued = n
                    /\ c.value.gen = gi[1] /\ c.value.call = gi[2]

\* C6: a call whose latest answer is a permanent failure is over: it takes no
\* backoff delay and makes no further attempt (a permanent failure of the
\* first attempt leaves exactly one invocation), and it raises the error of
\* that answer.
C6_PermanentErrorStopsAtOnce ==
    \A gi \in Calls :
        LET c == gens[gi[1]].calls[gi[2]]
            n == Len(c.answers)
        IN  (n >= 1 /\ IsPermanent(Last(c.answers))) =>
                /\ c.pc = "rejected"
                /\ c.issued = n
                /\ Len(c.delays) = n - 1
                /\ c.error = AttemptError(gens[gi[1]].adapter, Last(c.answers))

\* C7: no call is invoked more than 3 times, and a call that is over after
\* transient failures only has been invoked exactly 3 times and raises the
\* error of its last answer.
C7_ExhaustionRaisesLastError ==
    \A gi \in Calls :
        LET c == gens[gi[1]].calls[gi[2]]
            n == Len(c.answers)
        IN  /\ c.issued <= retries
            /\ (/\ c.pc = "rejected" /\ n >= 1
                /\ \A k \in 1..n : IsTransient(c.answers[k])) =>
                    /\ c.issued = retries
                    /\ c.error = AttemptError(gens[gi[1]].adapter, Last(c.answers))

\* The adapters that hold a key (this.apiKey); GeminiGenerator has no such
\* field.
HoldsKey(adapter) == adapter \in {"dalle", "stability", "volcengine"}
\* The credential createGenerator requires for a type.
RequiredKey(type, keys) ==
    IF type = "volcengine" THEN keys.volcengineSecretKey ELSE keys.geminiApiKey

C9_UnknownTypeFallsBackToGemini ==
    /\ (factory.by = "createGenerator" /\ factory.type \notin KnownTypes) =>
          /\ factory.result = createGenerator("gemini", factory.keys)
          /\ factory.result.ok <=> factory.keys.geminiApiKey # ""
          /\ factory.result.ok => factory.result.adapter = "gemini"
          /\ \A g \in DOMAIN gens : gens[g].adapter = "gemini"
    /\ (factory.by = "createGeneratorEarlier" /\ factory.type \notin EarlierTypes) =>
          /\ factory.result = createGeneratorEarlier("gemini", factory.keys.geminiApiKey)
          /\ factory.result.ok /\ factory.result.adapter = "gemini"

\* createGenerator was called with the type of a former version, and the
\* adapter it returned has sent a request.
C9_Witness ==
    /\ factory.by = "createGenerator" /\ factory.type = "dalle"
    /\ gens # <<>> /\ gens[1].adapter = "gemini"
    /\ gens[1].calls[1].issued >= 1

(***************************************************************************)
(* SpecSize: one calculateSize call for any resolution, any aspect ratio   *)
(* and any custom ratio string of the model.                               *)
(***************************************************************************)
SizeCall(resolution, aspectRatio, customRatio) ==
    [resolution |-> resolution, aspectRatio |-> aspectRatio, customRatio |-> customRatio,
     done |-> FALSE, width |-> 0, height |-> 0, ratio |-> [num |-> 0, den |-> 0]]

InitSize ==
    /\ slides = <<>>
    /\ isBatchGenerating = FALSE
    /\ batch = NoBatch
    /\ settings = [generatorType |-> "volcengine"]
    /\ apiKeys = [geminiApiKey |-> "", volcengineSecretKey |-> "sk"]
    /\ gens = <<>>
    /\ factory = NoFactory
    /\ nextId = 1
    /\ size \in {SizeCall(r, a, c) : r \in Resolutions, a \in AspectRatios, c \in CustomRatios}

CalculateSize ==
    /\ ~size.done
    /\ LET result == calculateSize(size.resolution, size.aspectRatio, size.customRatio)
       IN  size' = [size EXCEPT !.done = TRUE, !.width = result.width, !.height = result.height,
                                !.ratio = TargetRatio(size.aspectRatio, size.customRatio)]
    /\ UNCHANGED <<slides, isBatchGenerating, batch, settings, apiKeys, gens, factory, nextId>>

NextSize == CalculateSize

SpecSize == InitSize /\ [][NextSize]_vars

\* The aspect ratios of the table VOLCENGINE_ASPECT_RATIOS.
TableRatios == {VOLCENGINE_ASPECT_RATIOS[k].val : k \in DOMAIN VOLCENGINE_ASPECT_RATIOS}

\* C10: for both resolutions and every aspect ratio of the table,
\* calculateSize returns a width and a height that are multiples of 32 and
\* whose product lies in [921600, 16777216].
C10_TableSizesWithinBudget ==
    (size.done /\ size.aspectRatio \in TableRatios) =>
        /\ size.width % 32 = 0 /\ size.height % 32 = 0
        /\ size.width > 0 /\ size.height > 0
        /\ size.width * size.height >= 921600
        /\ size.width * size.height <= 16777216

\* The 4K size for 16:9, where rounding gives 5472x3072, over the maximum,
\* and the loop takes 32 off the width.
C10_Witness ==
    /\ size.done /\ size.resolution = "4K" /\ size.aspectRatio = "16:9"
    /\ size.width = 5440 /\ size.height = 3072

(***************************************************************************)
(* Custom ratios.                                                          *)
(***************************************************************************)
\* The custom strings of the model that are W:H with positive integers.
PositiveIntegerRatios == {"16:9", "21:9", "9:21", "1:1", "30000:1", "100000:1", "1:100000"}

CustomDone == size.done /\ size.aspectRatio = "custom"

\* C11: for every custom ratio W:H with positive integers W and H, the
\* extreme ones included, calculateSize returns a width and a height that are
\* positive multiples of 32 and whose product lies in [921600, 16777216].
C11_CustomSizesWithinBudget ==
    (CustomDone /\ size.customRatio \in PositiveIntegerRatios) =>
        /\ size.width % 32 = 0 /\ size.height % 32 = 0
        /\ size.width > 0 /\ size.height > 0
        /\ size.width * size.height >= 921600
        /\ size.width * size.height <= 16777216

\* C12: for the custom ratio 21:9, at both resolutions, the size returned
\* satisfies |width / height - 21 / 9| < 0.02, that is
\* 50 * |9 * width - 21 * height| < 9 * height.
C12_CustomRatioWithinTolerance ==
    (CustomDone /\ size.customRatio = "21:9") =>
        LET d == 9 * size.width - 21 * size.height
        IN  50 * (IF d < 0 THEN -d ELSE d) < 9 * size.height

\* 21:9 at 4K: rounding gives 6272x2688, the loop cuts the width to 6240 and
\* the ratio is off by 0.012.
C12_Witness ==
    /\ CustomDone /\ size.customRatio = "21:9" /\ size.resolution = "4K"
    /\ size.width = 6240 /\ size.height = 2688

\* C13: when the custom aspect ratio is selected and the custom string is not
\* two colon-separated positive integers, calculateSize returns the square
\* size of the resolution: 2048x2048 at 2K, 4096x4096 at 4K.
C13_UnparseableFallsBackToSquare ==
    (CustomDone /\ size.customRatio \notin PositiveIntegerRatios) =>
        /\ size.width = size.height
        /\ size.width = RESOLUTION_BASE_SIZE(size.resolution).width

(***************************************************************************)
(* The frame of a batch, checked under Spec.                               *)
(***************************************************************************)
\* A job the batch has to run: status idle, status error, or no results.
Unfinished(s) == s.status = "idle" \/ s.status = "error" \/ s.generatedImages = <<>>

\* C14: the targets of a batch are exactly the jobs that were idle, failed
\* or without results when it started, in list order; its generations are
\* made for targets only, in that order; and every other job, a successful
\* job with results among them, keeps its status and its results.
C14_BatchLeavesFinishedJobsAlone ==
    LET selected == SelectSeq(batch.snapshot, Unfinished)
    IN  /\ Len(batch.targets) = Len(selected)
        /\ \A k \in DOMAIN selected : batch.targets[k] = selected[k].id
        /\ \A g \in DOMAIN gens :
              (g > batch.first /\ gens[g].byBatch) =>
                  \E k \in DOMAIN selected : selected[k].id = gens[g].owner
        /\ \A g, h \in DOMAIN gens :
              (batch.first < g /\ g < h /\ gens[g].byBatch /\ gens[h].byBatch) =>
                  TargetPos(gens[g].owner) < TargetPos(gens[h].owner)
        /\ \A k \in DOMAIN batch.snapshot :
              LET s == batch.snapshot[k]
              IN  ~Unfinished(s) =>
                      /\ HasSlide(slides, s.id)
                      /\ SlideOf(slides, s.id).status = s.status
                      /\ SlideOf(slides, s.id).generatedImages = s.generatedImages
                      /\ BatchGens(s.id) = {}

\* A second batch that has run to its end over a list with a job that had
\* succeeded in the first batch and a job that had failed in it.
C14_Witness ==
    /\ batch.pc = "idle" /\ batch.first > 0
    /\ batch.targets # <<>> /\ batch.idx = Len(batch.targets) + 1
    /\ \E k \in DOMAIN batch.snapshot :
          /\ batch.snapshot[k].status = "success"
          /\ batch.snapshot[k].generatedImages # <<>>
    /\ \E k \in DOMAIN batch.snapshot : batch.snapshot[k].status = "error"
    /\ \A k \in DOMAIN batch.targets : BatchGens(batch.targets[k]) # {}

(***************************************************************************)
(* Properties of generateVariations, checked under SpecFanout.             *)
(***************************************************************************)
\* C15: a generateVariations call that returns, for any adapter and any
\* count >= 0, returns at least one image; a call that ends with no image
\* fails.
C15_SuccessCarriesAnImage ==
    \A g \in DOMAIN gens :
        (gens[g].mode # "single" /\ gens[g].outcome # "pending") =>
            /\ gens[g].outcome = "resolved" => Len(gens[g].images) >= 1
            /\ gens[g].images = <<>> => gens[g].outcome = "rejected"

(***************************************************************************)
(* SpecPolicy: one generateImage call on each of the four adapters, all    *)
(* constructed with a key, and a provider that gives the same answer to    *)
(* the k-th request of every call.                                         *)
(***************************************************************************)
PolicyAdapters == <<"gemini", "dalle", "stability", "volcengine">>

\* What a provider can answer alike to every adapter: an image, an HTTP
\* error with its status and message, or no answer at all.
PolicyOutcomes == {RespImage, RespNetErr} \cup HttpResponses

\* The shape outcome o takes for an adapter: DALL-E gets its image as a URL.
AnswerFor(adapter, o) == IF o = RespImage /\ adapter = "dalle" THEN RespUrl ELSE o

CallGenerateImageAll ==
    /\ gens = <<>>
    /\ gens' = [k \in DOMAIN PolicyAdapters |-> GenerateImage(PolicyAdapters[k], "sk")]
    /\ UNCHANGED <<slides, isBatchGenerating, batch, settings, apiKeys, factory, size, nextId>>

\* Every call that waits for the answer to its request gets outcome o, once
\* no call is in a backoff delay or in a download any more.
ProviderRespondAll(o) ==
    /\ \E g \in DOMAIN gens : gens[g].calls[1].pc = "fetch"
    /\ \A g \in DOMAIN gens : gens[g].calls[1].pc \in {"fetch", "resolved", "rejected"}
    /\ gens' = [g \in DOMAIN gens |->
                  IF gens[g].calls[1].pc = "fetch"
                  THEN AfterCall([gens[g] EXCEPT !.calls[1] =
                                     OnResponse(gens[g].adapter, Image(g, 1, TRUE), @,
                                                AnswerFor(gens[g].adapter, o))], 1)
                  ELSE gens[g]]
    /\ UNCHANGED <<slides, isBatchGenerating, batch, settings, apiKeys, factory, size, nextId>>

InitPolicy == Idle

NextPolicy ==
    \/ CallGenerateImageAll
    \/ \E o \in PolicyOutcomes : ProviderRespondAll(o)
    \/ \E g \in GenIds : DownloadRespond(g, 1, "ok")
    \/ \E g \in GenIds : BackoffFire(g, 1)

SpecPolicy == InitPolicy /\ [][NextPolicy]_vars

\* C16: fed the same provider outcomes, the generateImage calls of the four
\* adapters make the same number of provider requests and end alike, all in
\* success or all in the error of the same attempt.
C16_AdaptersShareRetryPolicy ==
    \A g, h \in DOMAIN gens :
        (gens[g].outcome # "pending" /\ gens[h].outcome # "pending") =>
            /\ gens[g].calls[1].issued = gens[h].calls[1].issued
            /\ gens[g].outcome = gens[h].outcome

(***************************************************************************)
(* The retry decision and the backoff of generateImage, checked under      *)
(* SpecRetry.                                                              *)
(***************************************************************************)
\* The call goes on after its latest answer: it waits for its backoff delay
\* or has issued its next request.
GoesOn(c) == c.pc \in {"backoff", "fetch"}

\* C17: a failed attempt is followed by another attempt if and only if
\* attempts remain and the failure is transient (HTTP 500 or 503, or a
\* message of overload, unavailability or rate limit); after any other
\* failure the call is over.
C17_RetryIffTransientAndAttemptsRemain ==
    \A gi \in Calls :
        LET c == gens[gi[1]].calls[gi[2]]
            n == Len(c.answers)
        IN  (n >= 1 /\ IsFailure(Last(c.answers))) =>
                (GoesOn(c) <=> (n < retries /\ IsTransient(Last(c.answers))))

\* C18: every attempt after the first is issued by the timer of the delay
\* taken after the failure before it, 2 s after the first failure and 4 s
\* after the second; no delay is taken after the third attempt, and none
\* after a permanent failure.
C18_BackoffBeforeEveryRetry ==
    \A gi \in Calls :
        LET c == gens[gi[1]].calls[gi[2]]
            n == Len(c.answers)
        IN  /\ Len(c.delays) <= 2
            /\ \A k \in DOMAIN c.delays : c.delays[k] = (IF k = 1 THEN 2000 ELSE 4000)
            /\ c.issued >= 1 =>
                  Len(c.delays) = (IF c.pc = "backoff" THEN c.issued ELSE c.issued - 1)
            /\ c.pc = "backoff" => c.timer = Last(c.delays)
            /\ (n >= 1 /\ IsPermanent(Last(c.answers))) =>
                  (c.pc # "backoff" /\ Len(c.delays) = n - 1)

\* The delays themselves, whatever failure they follow: 2 s, then 4 s, one
\* before every attempt after the first and none after the third attempt.
BackoffDelaysAreTwoAndFourSeconds ==
    \A gi \in Calls :
        LET c == gens[gi[1]].calls[gi[2]]
        IN  /\ Len(c.delays) <= 2
            /\ \A k \in DOMAIN c.delays : c.delays[k] = (IF k = 1 THEN 2000 ELSE 4000)
            /\ c.issued >= 1 =>
                  Len(c.delays) = (IF c.pc = "backoff" THEN c.issued ELSE c.issued - 1)
            /\ c.pc = "backoff" => c.timer = Last(c.delays)

(***************************************************************************)
(* The launches of generateVariations, checked under SpecFanout.           *)
(***************************************************************************)
\* generateImage has been entered for call c.
Launched(c) == c.pc \notin {"unstarted", "stagger"}

\* C19: a generateVariations call has count calls; once call i-1 is
\* launched, call i is launched too or waits for its stagger timer alone,
\* whether call i-1 has settled or not; and the timer of call i is set one
\* stagger after that of call i-1.
C19_CallsStartOnTheirStagger ==
    \A g \in DOMAIN gens :
        LET gen == gens[g]
        IN  gen.mode # "single" =>
                /\ DOMAIN gen.calls = 1..gen.count
                /\ \A i \in 2..gen.count :
                      /\ Launched(gen.calls[i - 1]) => gen.calls[i].pc # "unstarted"
                      /\ gen.calls[i].pc = "stagger" =>
                            gen.calls[i].timer = (i - 1) * Stagger(gen.adapter)

\* C20: the images a generateVariations call returns are those of its
\* successful calls in launch order: the image of call i comes before the
\* image of call j for i < j, also when call j settled before call i.
C20_ImagesInLaunchOrder ==
    \A g \in DOMAIN gens :
        LET gen == gens[g]
        IN  (gen.mode # "single" /\ gen.outcome = "resolved") =>
                /\ \A k \in DOMAIN gen.images :
                      gen.images[k].gen = g /\ gen.calls[gen.images[k].call].pc = "resolved"
                /\ \A a, b \in DOMAIN gen.images :
                      a < b => gen.images[a].call < gen.images[b].call

\* Three calls that succeeded, the third one first and the first one last.
C20_Witness ==
    \E g \in DOMAIN gens :
        /\ gens[g].mode # "single" /\ gens[g].outcome = "resolved"
        /\ gens[g].order = <<3, 2, 1>>
        /\ Len(gens[g].images) = 3

(***************************************************************************)
(* The choice of the target ratio, checked under SpecSize.                 *)
(***************************************************************************)
\* W and H of a custom string W:H with positive integers.
WidthPart(str) ==
    CASE str = "16:9" -> 16 [] str = "21:9" -> 21 [] str = "9:21" -> 9 [] str = "1:1" -> 1
      [] str = "30000:1" -> 30000 [] str = "100000:1" -> 100000 [] OTHER -> 1
HeightPart(str) ==
    CASE str = "16:9" -> 9 [] str = "21:9" -> 9 [] str = "9:21" -> 21 [] str = "1:1" -> 1
      [] str = "1:100000" -> 100000 [] OTHER -> 1

\* The ratio of the size the table gives for a named aspect ratio.
NamedWidth(a) ==
    CASE a = "1:1" -> 1 [] a = "4:3" -> 4 [] a = "3:4" -> 3 [] a = "16:9" -> 16
      [] a = "9:16" -> 9 [] a = "18:8" -> 21 [] a = "8:18" -> 9 [] OTHER -> 1
NamedHeight(a) ==
    CASE a = "1:1" -> 1 [] a = "4:3" -> 3 [] a = "3:4" -> 4 [] a = "16:9" -> 9
      [] a = "9:16" -> 16 [] a = "18:8" -> 9 [] a = "8:18" -> 21 [] OTHER -> 1

\* The target ratio the call used is w / h.
UsedRatio(w, h) == size.ratio.num * h = size.ratio.den * w

\* C21 as stated: whenever a custom string W:H with positive integers is
\* supplied, the target ratio is W / H, whichever aspect ratio is selected;
\* without such a string it is the ratio of the table for a named aspect
\* ratio, and 1 otherwise.
C21_CustomStringAlwaysWins ==
    size.done =>
        /\ size.customRatio \in PositiveIntegerRatios =>
              UsedRatio(WidthPart(size.customRatio), HeightPart(size.customRatio))
        /\ size.customRatio \in {"", "abc", "0:5", "16:9:1"} =>
              IF size.aspectRatio \in TableRatios
              THEN UsedRatio(NamedWidth(size.aspectRatio), NamedHeight(size.aspectRatio))
              ELSE UsedRatio(1, 1)

\* C21, amended: the custom string counts only when the custom aspect ratio
\* is selected; then the target ratio is W / H for a string W:H with
\* positive integers and 1 for a string without two numeric parts; when a
\* named aspect ratio is selected the target ratio is that of the table,
\* whatever the custom string.
C21_CustomStringWinsWhenSelected ==
    size.done =>
        IF size.aspectRatio = "custom"
        THEN /\ size.customRatio \in PositiveIntegerRatios =>
                    UsedRatio(WidthPart(size.customRatio), HeightPart(size.customRatio))
             /\ size.customRatio \in {"", "abc", "0:5", "16:9:1"} => UsedRatio(1, 1)
        ELSE UsedRatio(NamedWidth(size.aspectRatio), NamedHeight(size.aspectRatio))

\* The default settings, 16:9 selected with the custom string 21:9: the size
\* is the 16:9 one.
C21_Witness ==
    /\ size.done /\ size.aspectRatio = "16:9" /\ size.customRatio = "21:9"
    /\ size.resolution = "2K"
    /\ UsedRatio(16, 9) /\ size.width = 2720 /\ size.height = 1536

(***************************************************************************)
(* SpecUser: the App component with a user who clicks the generate button  *)
(* of single slides, the batch button and the delete buttons at any time   *)
(* the buttons are enabled.  Both keys are filled in and the first slide   *)
(* has been set to one variant; the provider answers each request with an  *)
(* image or with a 400, or not at all.                                     *)
(***************************************************************************)
InitUser ==
    /\ slides = <<updateSlide(<<createEmptySlide(1)>>, 1, [variantCount |-> 1])[1],
                  createEmptySlide(2)>>
    /\ nextId = 3
    /\ isBatchGenerating = FALSE
    /\ batch = NoBatch
    /\ settings \in [generatorType : KnownTypes]
    /\ apiKeys = [geminiApiKey |-> "sk", volcengineSecretKey |-> "sk"]
    /\ gens = <<>>
    /\ factory = NoFactory
    /\ size = <<>>

NextUser ==
    \/ \E id \in 1..MaxSlides : DeleteSlide(id)
    \/ \E id \in 1..MaxSlides : ClickGenerate(id)
    \/ ClickBatchGenerateWithin(MaxUserGens)
    \/ \E g \in GenIds, i \in CallIds : StaggerFire(g, i)
    \/ \E g \in GenIds, i \in CallIds, r \in AppResponses : ProviderRespond(g, i, r)

SpecUser == InitUser /\ [][NextUser]_vars

(***************************************************************************)
(* The life of a job, checked under SpecUser.                              *)
(***************************************************************************)
\* The generations of job id that have not returned yet.
InFlight(id) == {g \in DOMAIN gens : gens[g].owner = id /\ gens[g].outcome = "pending"}

\* One step of the status of every job that stays in the list: to
\* generating, or from generating to success or error (at once to error
\* when the factory throws).
StatusStep ==
    \A k \in DOMAIN slides, j \in DOMAIN slides' :
        (slides'[j].id = slides[k].id /\ slides'[j].status # slides[k].status) =>
            \/ slides'[j].status = "generating"
            \/ slides[k].status = "generating" /\ slides'[j].status \in {"success", "error"}
            \/ /\ slides'[j].status = "error"
               /\ ~createGenerator(settings.generatorType, apiKeys).ok

\* C22: a job is generating from the start of a generation until the
\* fan-out of that generation settles, and then becomes success or error;
\* it becomes success or error from generating only, and never idle again.
C22_GeneratingThenSuccessOrError ==
    /\ [](\A k \in DOMAIN slides :
             InFlight(slides[k].id) # {} => slides[k].status = "generating")
    /\ [][StatusStep]_vars

\* The jobs a step runs generateSlide code for: the owners of the
\* generations that start or return in the step.
Touched ==
    {gens'[g].owner : g \in {h \in DOMAIN gens' :
                               h \notin DOMAIN gens \/ gens'[h].outcome # gens[h].outcome}}

\* C23: a generation, whether it succeeds or fails, changes status,
\* generatedImages and errorMessage of its own job only: id, contentPrompt,
\* contentImage and variantCount of that job stay as they are, and so does
\* every field of every other job.
C23_GenerationTouchesOnlyItsJob ==
    [][\A k \in DOMAIN slides, j \in DOMAIN slides' :
          slides'[j].id = slides[k].id =>
              /\ slides'[j].contentPrompt = slides[k].contentPrompt
              /\ slides'[j].contentImage = slides[k].contentImage
              /\ slides'[j].variantCount = slides[k].variantCount
              /\ slides'[j] # slides[k] => slides[k].id \in Touched]_vars

\* The generation of the first job has failed; the job keeps its one
\* variant and the second job is as it was created.
C23_Witness ==
    /\ Len(slides) = 2
    /\ slides[1].status = "error" /\ slides[1].variantCount = 1
    /\ \E g \in DOMAIN gens : gens[g].owner = 1 /\ gens[g].outcome = "rejected"
    /\ slides[2] = createEmptySlide(2)

(***************************************************************************)
(* A provider call that never settles, checked under Spec.                 *)
(***************************************************************************)
\* A provider request of gen is unanswered; nothing makes the provider
\* answer it, so it may stay so forever.
HasOpenRequest(gen) == \E i \in DOMAIN gen.calls : gen.calls[i].pc = "fetch"

\* C24: as long as a provider call of a generateVariations call has not
\* settled, that call has neither returned nor raised, its job is
\* generating, and the batch has started no later job; a call that never
\* settles therefore holds all three forever.
C24_OpenRequestStallsTheBatch ==
    \A g \in DOMAIN gens :
        HasOpenRequest(gens[g]) =>
            /\ gens[g].outcome = "pending"
            /\ HasSlide(slides, gens[g].owner) =>
                  SlideOf(slides, gens[g].owner).status = "generating"
            /\ (gens[g].byBatch /\ g > batch.first) =>
                  \A h \in DOMAIN gens : h > g => ~gens[h].byBatch

(***************************************************************************)
(* The response handling of the Volcengine adapter, checked under          *)
(* SpecRetry.                                                              *)
(***************************************************************************)
\* C25: by the answer to its request, a Volcengine generateImage call
\* returns inline data without a second fetch; fetches a URL once and
\* returns its content, or raises the download error when that fetch fails;
\* raises the empty-result error for an answer with neither; and raises the
\* request-failed error, with the message of the body or of the status, for
\* a non-success status, without a second fetch.
C25_VolcengineResponseHandling ==
    \A gi \in Calls :
        LET c == gens[gi[1]].calls[gi[2]]
            r == Last(c.answers)
        IN  (gens[gi[1]].adapter = "volcengine" /\ c.answers # <<>>) =>
                /\ Len(c.answers) = 1
                /\ r.kind = "image" =>
                      (c.pc = "resolved" /\ c.value = Image(gi[1], gi[2], TRUE))
                /\ r.kind = "url" =>
                      /\ c.pc \in {"download", "resolved", "rejected"}
                      /\ c.pc = "resolved" => c.value = Image(gi[1], gi[2], TRUE)
                      /\ c.pc = "rejected" => c.error = Err("Error", 0, MsgVolcDownload)
                /\ r.kind = "empty" =>
                      (c.pc = "rejected" /\ c.error = Err("Error", 0, MsgVolcNoData))
                /\ r.kind = "http" =>
                      /\ c.pc = "rejected"
                      /\ c.error = Err("Error", 0, IF r.body # "" THEN r.body
                                                   ELSE VolcDefaultMsg(r.status))

\* C26: a job never has two generations in flight: neither the batch nor
\* the generate button of the job starts a generation for a job that is
\* generating.
C26_OneGenerationPerJob ==
    \A k \in DOMAIN slides : Cardinality(InFlight(slides[k].id)) <= 1

\* C27: the results of a job with status success are the images one of its
\* generations returned: at least one image and at most the variantCount
\* that was requested, exactly that many for the Promise.all adapters.
C27_SuccessStoresItsImages ==
    \A k \in DOMAIN slides :
        slides[k].status = "success" =>
            \E g \in DOMAIN gens :
                /\ gens[g].owner = slides[k].id /\ gens[g].outcome = "resolved"
                /\ slides[k].generatedImages = gens[g].images
                /\ gens[g].count = slides[k].variantCount
                /\ Len(gens[g].images) >= 1
                /\ Len(gens[g].images) <= gens[g].count
                /\ gens[g].mode = "all" => Len(gens[g].images) = gens[g].count

\* A Volcengine job of two variants that succeeded with the one image of
\* its second call.
C27_Witness ==
    \E k \in DOMAIN slides :
        /\ slides[k].status = "success" /\ slides[k].variantCount = 2
        /\ Len(slides[k].generatedImages) = 1
        /\ slides[k].generatedImages[1].call = 2

\* A generation of job id starts in the step.
Starts(id) == \E g \in DOMAIN gens' : g \notin DOMAIN gens /\ gens'[g].owner = id
\* A generation of job id fails in the step.
Fails(id) ==
    \E g \in DOMAIN gens :
        gens[g].owner = id /\ gens[g].outcome = "pending" /\ gens'[g].outcome = "rejected"

\* C28: the step in which a generation of a job fails leaves the results of
\* the job as they were and writes status error and an errorMessage; the
\* step in which a generation starts clears the errorMessage and leaves the
\* results as they were.
C28_FailureKeepsResults ==
    [][\A k \in DOMAIN slides, j \in DOMAIN slides' :
          slides'[j].id = slides[k].id =>
              /\ Fails(slides[k].id) =>
                    /\ slides'[j].generatedImages = slides[k].generatedImages
                    /\ slides'[j].status = "error"
                    /\ slides'[j].errorMessage # ""
              /\ Starts(slides[k].id) =>
                    /\ slides'[j].generatedImages = slides[k].generatedImages
                    /\ slides'[j].status = "generating"
                    /\ slides'[j].errorMessage = ""]_vars

\* A job that succeeded and was generated again: the second generation has
\* failed and the images of the first are still there.
C28_Witness ==
    \E k \in DOMAIN slides :
        /\ slides[k].status = "error" /\ slides[k].errorMessage # ""
        /\ slides[k].generatedImages # <<>>
        /\ \E g, h \in DOMAIN gens :
              /\ g < h /\ gens[g].owner = slides[k].id /\ gens[h].owner = slides[k].id
              /\ gens[g].outcome = "resolved" /\ gens[h].outcome = "rejected"
              /\ slides[k].generatedImages = gens[g].images

(***************************************************************************)
(* Deleted jobs, checked under SpecUser.                                   *)
(***************************************************************************)
\* The ids of the jobs of a list, in the order of the list.
IdsOf(sl) == [k \in DOMAIN sl |-> sl[k].id]
IdSet(sl) == {sl[k].id : k \in DOMAIN sl}

\* A generation is started or settles in the step.
GenerationStep ==
    \/ Len(gens') # Len(gens)
    \/ \E g \in DOMAIN gens : gens'[g].outcome # gens[g].outcome

\* C29: a deleted job is never re-created: a step that starts or settles a
\* generation, of a deleted job or of any other, leaves the list of job ids
\* as it was, and the ids change only by deleteSlide, which removes one id,
\* or by addSlide, which appends the next fresh id.
C29_DeletedJobStaysDeleted ==
    [][/\ GenerationStep => IdsOf(slides') = IdsOf(slides)
       /\ IdsOf(slides') # IdsOf(slides) =>
              \/ \E id \in IdSet(slides) :
                    /\ slides' = deleteSlide(slides, id)
                    /\ gens' = gens /\ batch' = batch
              \/ /\ IdsOf(slides') = Append(IdsOf(slides), nextId)
                 /\ nextId' = nextId + 1]_vars

\* The batch reached a target that had been deleted, started its generation
\* from the closure, and that generation has returned its images.
C29_Witness ==
    /\ Len(gens) = 2
    /\ gens[1].byBatch /\ gens[2].byBatch
    /\ gens[2].outcome = "resolved" /\ gens[2].images # <<>>
    /\ gens[2].owner \notin IdSet(slides)
    /\ gens[2].owner \in {batch.targets[k] : k \in DOMAIN batch.targets}

(***************************************************************************)
(* Termination of a batch.  SpecUserLive is SpecUser under weak fairness   *)
(* of Settle: a timer that is set fires, since the event loop runs a due   *)
(* setTimeout callback, and a request that is sent is answered, which is   *)
(* the hypothesis "every provider call settles".  The fairness condition   *)
(* is written out, with the enabling condition of Settle as the state      *)
(* predicate CanSettle.                                                    *)
(***************************************************************************)
\* A stagger timer fires or the provider answers a request.
Settle ==
    \/ \E g \in GenIds, i \in CallIds : StaggerFire(g, i)
    \/ \E g \in GenIds, i \in CallIds, r \in AppResponses : ProviderRespond(g, i, r)

\* Some call waits for its stagger timer or for the answer of the provider.
CanSettle ==
    \E g \in DOMAIN gens : \E i \in DOMAIN gens[g].calls :
        gens[g].calls[i].pc \in {"stagger", "fetch"}

\* Settle can be taken exactly when some call waits.
CanSettleIsEnabled == CanSettle <=> ENABLED <<Settle>>_vars

SpecUserLive ==
    /\ SpecUser
    /\ ([]<>(~CanSettle) \/ []<><<Settle>>_vars)

\* Job id is in the list with status generating.
IsGenerating(id) == HasSlide(slides, id) /\ SlideOf(slides, id).status = "generating"

\* A batch runs or some job is generating.
Busy == isBatchGenerating \/ \E id \in 1..MaxSlides : IsGenerating(id)

\* C30: when every provider call settles a started batch terminates.  The
\* flag isBatchGenerating is true exactly while the loop of
\* handleBatchGenerate runs; the loop ends only after its last target, so a
\* batch that is over has been through every target, failed or not; no
\* batch starts while the flag is true; and whenever a batch runs or a job
\* is generating, a state follows where the flag is false and no job is
\* generating.
C30_BatchTerminates ==
    /\ [](isBatchGenerating <=> batch.pc = "running")
    /\ [](batch.pc = "idle" => \/ batch = NoBatch
                               \/ batch.idx = Len(batch.targets) + 1)
    /\ [][isBatchGenerating =>
             /\ batch'.targets = batch.targets
             /\ batch'.snapshot = batch.snapshot
             /\ batch'.first = batch.first]_vars
    /\ (Busy ~> ~Busy)

\* A batch of two targets is over: the flag is false again, the generation
\* of the first target failed and that of the second returned its images.
C30_Witness ==
    /\ ~isBatchGenerating
    /\ batch.pc = "idle" /\ Len(batch.targets) = 2 /\ batch.idx = 3
    /\ Len(gens) = 2 /\ gens[1].byBatch /\ gens[2].byBatch
    /\ gens[1].outcome = "rejected" /\ gens[2].outcome = "resolved"
    /\ \A k \in DOMAIN slides : slides[k].status \in {"success", "error"}

====
